---- MODULE Spec2Model ----
(***************************************************************************)
(* Podcastr: the podcast data-access layer (convex/podcast.ts handlers)    *)
(* and the Discover page, as state machines.                               *)
(*                                                                         *)
(*   Spec          the podcasts table and the file storage under the       *)
(*                 mutations createPodcast, updatePodcast,                 *)
(*                 updatePodcastViews and deletePodcast                    *)
(*   SpecRace      updatePodcastViews as its two awaited steps, several    *)
(*                 requests in flight                                      *)
(*   SpecTrending  getTrendingPodcasts applied to a table                  *)
(*   SpecSearch    getPodcastBySearch applied to a table and a term        *)
(*   SpecDiscover  the Discover page: its queries and what it renders      *)
(***************************************************************************)
EXTENDS Integers, Sequences, FiniteSets, TLC

VARIABLES
    podcasts,          \* the "podcasts" table: _id -> document
    storage,           \* the file storage: the set of storage ids that hold a file
    nextId,            \* the _id the next ctx.db.insert returns
    last,              \* the handler that ran last and how it ended
    pc,                \* updatePodcastViews in flight: each request's position
    podcastRead,       \* updatePodcastViews in flight: the document each request read
    trendingPodcasts,  \* Discover: what useQuery(getTrendingPodcasts) returned
    categoryPodcasts,  \* Discover: the categoryPodcasts state
    categoriesData,    \* Discover: fetchCategoryPodcasts' local categoriesData
    fetchIdx,          \* Discover: number of category queries resolved so far
    search,            \* the argument of the query under test
    result             \* what the query under test returned

storeVars == <<podcasts, storage, nextId, last>>
raceVars == <<pc, podcastRead>>
pageVars == <<trendingPodcasts, categoryPodcasts, categoriesData, fetchIdx>>
queryVars == <<search, result>>
vars == <<storeVars, raceVars, pageVars, queryVars>>

---------------------------------------------------------------------------
(* Bounds of the model *)

\* Number of documents ever inserted into the table.
MaxPodcasts == 2

\* updatePodcastViews is not taken beyond this view count.
MaxViews == 1

\* Number of updatePodcastViews requests in flight at once (SpecRace).
NumRequests == 4

\* Largest table getTrendingPodcasts is applied to (SpecTrending).
MaxTrendingDocs == 9

\* Largest table getPodcastBySearch is applied to (SpecSearch).
MaxSearchDocs == 11

---------------------------------------------------------------------------
(* Values *)

\* `null' of the source: what a failed lookup returns.
Null == [null |-> TRUE]

\* A value that may be `undefined': the empty set, or the set of the one value.
Undefined == {}
Defined(v) == {v}
The(v) == CHOOSE x \in v : TRUE

\* ctx.auth.getUserIdentity(): null, or an identity carrying an email claim.
NoIdentity == Null

\* The "users" table, in the order collect() returns it.
Users ==
    << [_id |-> "u1", email |-> "ann@x", name |-> "ann", clerkId |-> "c1", imageUrl |-> "pa"],
       [_id |-> "u2", email |-> "bob@x", name |-> "bob", clerkId |-> "c2", imageUrl |-> "pb"] >>

\* The callers: nobody logged in, each user, and an identity with no users row.
Identities == {NoIdentity} \cup {[email |-> e] : e \in {"ann@x", "bob@x", "eve@x"}}

StorageIds == {"s1", "s2", "s3", "s4"}

\* JavaScript truthiness of a string and of a number.
TruthyStr(s) == s # ""
TruthyNum(n) == n # 0

\* Argument vectors the handlers are called with.
ArgsOrig ==
    [podcastTitle |-> "t1", podcastDescription |-> "d1", audioUrl |-> "au1",
     imageUrl |-> "iu1", voicePrompt |-> "vp1", imagePrompt |-> "ip1",
     voiceType |-> "alloy", categoryType |-> "business", views |-> 0,
     audioDuration |-> 5, audioStorageId |-> "s1", imageStorageId |-> "s2"]

ArgsNew ==
    [podcastTitle |-> "t2", podcastDescription |-> "d2", audioUrl |-> "au2",
     imageUrl |-> "iu2", voicePrompt |-> "vp2", imagePrompt |-> "ip2",
     voiceType |-> "echo", categoryType |-> "arts", views |-> 1,
     audioDuration |-> 7, audioStorageId |-> "s3", imageStorageId |-> "s4"]

ArgsFalsy ==
    [podcastTitle |-> "", podcastDescription |-> "", audioUrl |-> "",
     imageUrl |-> "", voicePrompt |-> "", imagePrompt |-> "",
     voiceType |-> "", categoryType |-> "", views |-> 0,
     audioDuration |-> 0, audioStorageId |-> "s1", imageStorageId |-> "s2"]

CreateArgs == {ArgsOrig, [ArgsOrig EXCEPT !.views = -1]}
UpdateArgs == {ArgsNew, ArgsFalsy}

\* (imageStorageId, audioStorageId) pairs deletePodcast is called with.
DeleteArgs ==
    {[imageStorageId |-> "s2", audioStorageId |-> "s1"],
     [imageStorageId |-> "s4", audioStorageId |-> "s3"]}

PodcastIds == 1..MaxPodcasts

---------------------------------------------------------------------------
(* The platform's table operations *)

\* ctx.db.get(id)
Get(db, id) == IF id \in DOMAIN db THEN db[id] ELSE Null

\* ctx.db.patch(id, updates): shallow merge of the given fields.
Patch(db, id, updates) ==
    [db EXCEPT ![id] =
        [f \in DOMAIN db[id] |-> IF f \in DOMAIN updates THEN updates[f] ELSE db[id][f]]]

\* ctx.db.insert: the document under a fresh _id.
Insert(db, id, doc) ==
    [i \in DOMAIN db \cup {id} |-> IF i = id THEN doc ELSE db[i]]

\* ctx.db.delete(id)
Delete(db, id) == [i \in DOMAIN db \ {id} |-> db[i]]

\* ctx.db.query("users").filter(email = e).collect()
UsersByEmail(e) == SelectSeq(Users, LAMBDA u : u.email = e)

---------------------------------------------------------------------------
(* Queries *)

Min(a, b) == IF a <= b THEN a ELSE b

\* ctx.db.query("podcasts").collect(): the documents in creation order,
\* which is the order of their _id here.
Collect(db) ==
    [k \in 1..Cardinality(DOMAIN db) |->
        db[CHOOSE i \in DOMAIN db : Cardinality({j \in DOMAIN db : j < i}) = k - 1]]

\* .order("desc"): newest first.
OrderDesc(docs) == [i \in 1..Len(docs) |-> docs[Len(docs) + 1 - i]]

\* .take(n) and .slice(0, n)
Take(docs, n) == SubSeq(docs, 1, Min(n, Len(docs)))

\* getPodcastById
getPodcastById(db, podcastId) == Get(db, podcastId)

\* getPodcastByCategoryType
getPodcastByCategoryType(db, categoryType) ==
    [podcasts |-> SelectSeq(Collect(db), LAMBDA doc : doc.categoryType = categoryType)]

\* Mutant: the comparator sorts ascending.
ByViewsAsc(a, b) == a.views - b.views

\* The comparator (a, b) => b.views - a.views.
ByViewsDesc(a, b) == b.views - a.views

\* Array.prototype.sort with that comparator: a stable sort, so an element
\* comes behind exactly those that compare before it and those that compare
\* equal to it and stood before it.
SortByViews(docs) ==
    LET Before(j, i) ==
            \/ ByViewsDesc(docs[j], docs[i]) < 0
            \/ ByViewsDesc(docs[j], docs[i]) = 0 /\ j < i
        Rank(i) == Cardinality({j \in 1..Len(docs) : Before(j, i)})
    IN  [k \in 1..Len(docs) |-> docs[CHOOSE i \in 1..Len(docs) : Rank(i) = k - 1]]

\* slice(0, 8)
TrendingLimit == 8

\* getTrendingPodcasts
getTrendingPodcasts(db) == Take(SortByViews(Collect(db)), TrendingLimit)

\* The words the search index holds for a text.
Tokens(text) ==
    CASE text = "" -> {}
      [] text = "cat show" -> {"cat", "show"}
      [] OTHER -> {text}

\* withSearchIndex(..., q => q.search(field, term)): the documents whose field
\* holds the term, in the index's order (taken here as newest first).
SearchIndex(db, field, term) ==
    SelectSeq(OrderDesc(Collect(db)), LAMBDA doc : term \in Tokens(doc[field]))

\* .take(10)
SearchLimit == 10

\* "podcastDescription" || "podcastTitle": the first operand, being truthy.
BodySearchField == IF TruthyStr("podcastDescription") THEN "podcastDescription" ELSE "podcastTitle"

\* Mutant: author and title hits are merged instead of tried in turn.
getPodcastBySearchMerged(db, term) ==
    IF term = "" THEN OrderDesc(Collect(db))
    ELSE LET hits == Take(SearchIndex(db, "author", term), SearchLimit)
                       \o Take(SearchIndex(db, "podcastTitle", term), SearchLimit)
         IN  IF Len(hits) > 0 THEN hits
             ELSE Take(SearchIndex(db, BodySearchField, term), SearchLimit)

\* getPodcastBySearch
getPodcastBySearch(db, term) ==
    IF term = "" THEN OrderDesc(Collect(db))
    ELSE LET authorSearch == Take(SearchIndex(db, "author", term), SearchLimit)
             titleSearch == Take(SearchIndex(db, "podcastTitle", term), SearchLimit)
         IN  IF Len(authorSearch) > 0 THEN authorSearch
             ELSE IF Len(titleSearch) > 0 THEN titleSearch
             ELSE Take(SearchIndex(db, BodySearchField, term), SearchLimit)

---------------------------------------------------------------------------
(* Mutations *)

Outcome(op, res) == [op |-> op, result |-> res]

\* createPodcast: the document inserted for `args' by `user'.
NewPodcast(id, user, args) ==
    [_id |-> id,
     audioStorageId |-> args.audioStorageId,
     user |-> user._id,
     podcastTitle |-> args.podcastTitle,
     podcastDescription |-> args.podcastDescription,
     audioUrl |-> args.audioUrl,
     imageUrl |-> args.imageUrl,
     imageStorageId |-> args.imageStorageId,
     author |-> user.name,
     authorId |-> user.clerkId,
     voicePrompt |-> args.voicePrompt,
     imagePrompt |-> args.imagePrompt,
     voiceType |-> args.voiceType,
     categoryType |-> args.categoryType,
     views |-> args.views,
     authorImageUrl |-> user.imageUrl,
     audioDuration |-> args.audioDuration]

createPodcast(identity, args) ==
    /\ nextId <= MaxPodcasts
    /\ IF identity = NoIdentity
       THEN /\ last' = Outcome("createPodcast", "User not authenticated")
            /\ UNCHANGED <<podcasts, storage, nextId>>
       ELSE LET user == UsersByEmail(identity.email) IN
            IF Len(user) = 0
            THEN /\ last' = Outcome("createPodcast", "User not found")
                 /\ UNCHANGED <<podcasts, storage, nextId>>
            ELSE /\ podcasts' = Insert(podcasts, nextId, NewPodcast(nextId, user[1], args))
                 /\ nextId' = nextId + 1
                 /\ last' = Outcome("createPodcast", "ok")
                 /\ UNCHANGED storage

\* updatePodcast: the `updates' object built from the arguments.
StrFields ==
    {"podcastTitle", "podcastDescription", "audioUrl", "imageUrl",
     "voicePrompt", "imagePrompt", "voiceType", "categoryType"}

\* Mutant: every supplied field is written, falsy or not.
PodcastUpdateFieldsAll(args) == DOMAIN args

PodcastUpdateFields(args) ==
    {f \in StrFields : TruthyStr(args[f])}
        \cup {"views"}
        \cup (IF TruthyNum(args.audioDuration) THEN {"audioDuration"} ELSE {})
        \cup {"audioStorageId", "imageStorageId"}

PodcastUpdate(args) == [f \in PodcastUpdateFields(args) |-> args[f]]

\* updatePodcast, lines 104-122: build `updates' and patch the document.
PatchPodcast(podcastId, args) ==
    /\ podcasts' = Patch(podcasts, podcastId, PodcastUpdate(args))
    /\ last' = Outcome("updatePodcast", "ok")
    /\ UNCHANGED <<storage, nextId>>

updatePodcast(identity, podcastId, args) ==
    IF identity = NoIdentity
    THEN /\ last' = Outcome("updatePodcast", "User not authenticated")
         /\ UNCHANGED <<podcasts, storage, nextId>>
    ELSE IF Get(podcasts, podcastId) = Null
    THEN /\ last' = Outcome("updatePodcast", "Podcast not found")
         /\ UNCHANGED <<podcasts, storage, nextId>>
    ELSE PatchPodcast(podcastId, args)

\* Mutant: the increment writes back the count it read.
ViewsPatchSame(podcast) == [views |-> podcast.views]

\* updatePodcastViews: the patch written for the document read.
ViewsPatch(podcast) == [views |-> podcast.views + 1]

updatePodcastViews(podcastId) ==
    LET podcast == Get(podcasts, podcastId) IN
    IF podcast = Null
    THEN /\ last' = Outcome("updatePodcastViews", "Podcast not found")
         /\ UNCHANGED <<podcasts, storage, nextId>>
    ELSE /\ podcast.views < MaxViews
         /\ podcasts' = Patch(podcasts, podcastId, ViewsPatch(podcast))
         /\ last' = Outcome("updatePodcastViews", "ok")
         /\ UNCHANGED <<storage, nextId>>

\* deletePodcast: the storage ids the handler deletes.
DeletedFiles(podcast, args) == {args.imageStorageId, args.audioStorageId}

deletePodcast(podcastId, args) ==
    LET podcast == Get(podcasts, podcastId) IN
    IF podcast = Null
    THEN /\ last' = Outcome("deletePodcast", "Podcast not found")
         /\ UNCHANGED <<podcasts, storage, nextId>>
    ELSE \/ /\ storage' = storage \ DeletedFiles(podcast, args)
            /\ podcasts' = Delete(podcasts, podcastId)
            /\ last' = Outcome("deletePodcast", "ok")
            /\ UNCHANGED nextId
         \/ \* ctx.storage.delete of an id that holds no file may reject;
            \* the mutation is then rolled back as a whole.
            /\ ~(DeletedFiles(podcast, args) \subseteq storage)
            /\ last' = Outcome("deletePodcast", "storage error")
            /\ UNCHANGED <<podcasts, storage, nextId>>

-------------------------------------------------------------------------------------------------------------------------------------------------
(* The store under its mutations *)

InitStore ==
    /\ podcasts = << >>
    /\ storage = StorageIds
    /\ nextId = 1
    /\ last = Outcome("none", "ok")

InitRaceIdle ==
    /\ pc = << >>
    /\ podcastRead = << >>

InitPageIdle ==
    /\ trendingPodcasts = Undefined
    /\ categoryPodcasts = << >>
    /\ categoriesData = << >>
    /\ fetchIdx = 0

InitQueryIdle ==
    /\ search = ""
    /\ result = Undefined

Init == InitStore /\ InitRaceIdle /\ InitPageIdle /\ InitQueryIdle

Next ==
    \/ \E identity \in Identities, args \in CreateArgs :
          createPodcast(identity, args) /\ UNCHANGED <<raceVars, pageVars, queryVars>>
    \/ \E identity \in Identities, podcastId \in PodcastIds, args \in UpdateArgs :
          updatePodcast(identity, podcastId, args) /\ UNCHANGED <<raceVars, pageVars, queryVars>>
    \/ \E podcastId \in PodcastIds :
          updatePodcastViews(podcastId) /\ UNCHANGED <<raceVars, pageVars, queryVars>>
    \/ \E podcastId \in PodcastIds, args \in DeleteArgs :
          deletePodcast(podcastId, args) /\ UNCHANGED <<raceVars, pageVars, queryVars>>

Spec == Init /\ [][Next]_vars

---------------------------------------------------------------------------
(* updatePodcastViews as the two awaited steps of its handler, with several
   requests for the same podcast in flight (SpecRace).  Whether the host
   platform lets the steps of two mutations interleave is outside this
   repository; the handler itself takes no lock and does not retry. *)

Requests == 1..NumRequests

\* The podcast every request asks for, as createPodcast inserted it.
RacePodcastId == 1
RacePodcast == NewPodcast(RacePodcastId, Users[1], ArgsOrig)

InitRace ==
    /\ podcasts = Insert(<< >>, RacePodcastId, RacePodcast)
    /\ storage = StorageIds
    /\ nextId = RacePodcastId + 1
    /\ last = Outcome("createPodcast", "ok")
    /\ pc = [r \in Requests |-> "get"]
    /\ podcastRead = [r \in Requests |-> Null]
    /\ InitPageIdle
    /\ InitQueryIdle

\* const podcast = await ctx.db.get(args.podcastId), and the not-found throw.
GetPodcast(r) ==
    /\ pc[r] = "get"
    /\ podcastRead' = [podcastRead EXCEPT ![r] = Get(podcasts, RacePodcastId)]
    /\ IF Get(podcasts, RacePodcastId) = Null
       THEN /\ pc' = [pc EXCEPT ![r] = "done"]
            /\ last' = Outcome("updatePodcastViews", "Podcast not found")
       ELSE /\ pc' = [pc EXCEPT ![r] = "patch"]
            /\ UNCHANGED last
    /\ UNCHANGED <<podcasts, storage, nextId, pageVars, queryVars>>

\* Mutant: the write increments the count stored now, not the count read.
PatchViewsAtomic(r) ==
    /\ pc[r] = "patch"
    /\ podcasts' = Patch(podcasts, RacePodcastId, ViewsPatch(podcasts[RacePodcastId]))
    /\ pc' = [pc EXCEPT ![r] = "done"]
    /\ last' = Outcome("updatePodcastViews", "ok")
    /\ UNCHANGED <<podcastRead, storage, nextId, pageVars, queryVars>>

\* await ctx.db.patch(args.podcastId, {views: podcast.views + 1})
PatchViews(r) ==
    /\ pc[r] = "patch"
    /\ podcasts' = Patch(podcasts, RacePodcastId, ViewsPatch(podcastRead[r]))
    /\ pc' = [pc EXCEPT ![r] = "done"]
    /\ last' = Outcome("updatePodcastViews", "ok")
    /\ UNCHANGED <<podcastRead, storage, nextId, pageVars, queryVars>>

NextRace ==
    \/ \E r \in Requests : GetPodcast(r)
    \/ \E r \in Requests : PatchViews(r)

SpecRace == InitRace /\ [][NextRace]_vars

---------------------------------------------------------------------------
(* getTrendingPodcasts applied to a table (SpecTrending) *)

\* View counts of the documents in the tables the query is applied to.
TrendingViews == {0, 1, 2}

\* A table of n documents as createPodcast leaves them.
TableOf(n, doc(_)) == [i \in 1..n |-> doc(i)]

InitTrending ==
    /\ \E n \in 0..MaxTrendingDocs : \E v \in [1..n -> TrendingViews] :
          /\ podcasts = TableOf(n, LAMBDA i : NewPodcast(i, Users[1], [ArgsOrig EXCEPT !.views = v[i]]))
          /\ nextId = n + 1
    /\ storage = StorageIds
    /\ last = Outcome("createPodcast", "ok")
    /\ InitRaceIdle
    /\ InitPageIdle
    /\ InitQueryIdle

RunTrending ==
    /\ result = Undefined
    /\ result' = Defined(getTrendingPodcasts(podcasts))
    /\ UNCHANGED <<storeVars, raceVars, pageVars, search>>

SpecTrending == InitTrending /\ [][RunTrending]_vars

---------------------------------------------------------------------------
(* getPodcastBySearch applied to a table (SpecSearch) *)

\* The two kinds of document in the tables searched: by ann, titled "bob",
\* about "cat"; by bob, titled "cat show", about "dan".
SearchDoc(i, kind) ==
    IF kind = 1
    THEN NewPodcast(i, Users[1], [ArgsOrig EXCEPT !.podcastTitle = "bob", !.podcastDescription = "cat"])
    ELSE NewPodcast(i, Users[2], [ArgsOrig EXCEPT !.podcastTitle = "cat show", !.podcastDescription = "dan"])

SearchTerms == {"", "ann", "bob", "cat", "dan", "eve"}

InitSearch ==
    /\ \E n \in 0..MaxSearchDocs : \E kind \in [1..n -> {1, 2}] :
          /\ podcasts = TableOf(n, LAMBDA i : SearchDoc(i, kind[i]))
          /\ nextId = n + 1
    /\ storage = StorageIds
    /\ last = Outcome("createPodcast", "ok")
    /\ search \in SearchTerms
    /\ result = Undefined
    /\ InitRaceIdle
    /\ InitPageIdle

RunSearch ==
    /\ result = Undefined
    /\ result' = Defined(getPodcastBySearch(podcasts, search))
    /\ UNCHANGED <<storeVars, raceVars, pageVars, search>>

SpecSearch == InitSearch /\ [][RunSearch]_vars

---------------------------------------------------------------------------
(* The Discover page (SpecDiscover): the trending subscription, the effect
   that fetches the thirteen categories one after another, and what the
   component renders; other clients create podcasts meanwhile. *)

podcastCategories ==
    << "business", "technology", "comedy", "education", "hobbies",
       "government", "mental health", "family", "music", "politics",
       "spirituality", "culture", "arts" >>

\* Arguments other clients call createPodcast with while the page is open.
PageCreateArgs == {ArgsOrig, ArgsNew}

\* {...podcast, imageUrl: podcast.imageUrl || ''}
WithImageUrl(doc) ==
    [doc EXCEPT !.imageUrl = IF TruthyStr(doc.imageUrl) THEN doc.imageUrl ELSE ""]

MapSeq(f(_), docs) == [i \in 1..Len(docs) |-> f(docs[i])]

InitDiscover ==
    /\ InitStore
    /\ InitRaceIdle
    /\ InitQueryIdle
    /\ trendingPodcasts = Undefined
    /\ categoryPodcasts = << >>
    /\ categoriesData = << >>
    /\ fetchIdx = 0

\* useQuery(api.podcast.getTrendingPodcasts): the subscription delivers the
\* query's current result, first and after every change of it.
TrendingResolve ==
    /\ trendingPodcasts # Defined(getTrendingPodcasts(podcasts))
    /\ trendingPodcasts' = Defined(getTrendingPodcasts(podcasts))
    /\ UNCHANGED <<storeVars, raceVars, queryVars, categoryPodcasts, categoriesData, fetchIdx>>

\* One turn of the for loop of fetchCategoryPodcasts.
FetchCategory ==
    /\ fetchIdx < Len(podcastCategories)
    /\ LET categoryType == podcastCategories[fetchIdx + 1]
           fetched == getPodcastByCategoryType(podcasts, categoryType).podcasts
       IN  categoriesData' =
              [c \in DOMAIN categoriesData \cup {categoryType} |->
                  IF c = categoryType THEN MapSeq(WithImageUrl, fetched)
                  ELSE categoriesData[c]]
    /\ fetchIdx' = fetchIdx + 1
    /\ UNCHANGED <<storeVars, raceVars, queryVars, trendingPodcasts, categoryPodcasts>>

\* setCategoryPodcasts(categoriesData), after the loop.
SetCategoryPodcasts ==
    /\ fetchIdx = Len(podcastCategories)
    /\ categoryPodcasts' = categoriesData
    /\ fetchIdx' = fetchIdx + 1
    /\ UNCHANGED <<storeVars, raceVars, queryVars, trendingPodcasts, categoriesData>>

\* Mutant: the page waits for the categories only.
LoadingCategoriesOnly ==
    \E i \in 1..Len(podcastCategories) : podcastCategories[i] \notin DOMAIN categoryPodcasts

\* The loading test of the component.
Loading ==
    \/ trendingPodcasts = Undefined
    \/ \E i \in 1..Len(podcastCategories) : podcastCategories[i] \notin DOMAIN categoryPodcasts

\* Mutant: a section for every category that was fetched, empty or not.
SectionsAll ==
    SelectSeq(podcastCategories, LAMBDA categoryType :
        categoryType \in DOMAIN categoryPodcasts /\ Len(categoryPodcasts[categoryType]) >= 0)

\* The category sections rendered: categoryPodcasts[categoryType]?.length > 0.
Sections ==
    SelectSeq(podcastCategories, LAMBDA categoryType :
        categoryType \in DOMAIN categoryPodcasts /\ Len(categoryPodcasts[categoryType]) > 0)

\* trendingPodcasts?.map(...): the cards of the trending section.
TrendingCards == IF trendingPodcasts = Undefined THEN << >> ELSE The(trendingPodcasts)

\* What the component returns.
Render ==
    IF Loading
    THEN [view |-> "LoaderSpinner"]
    ELSE [view |-> "content", trending |-> TrendingCards, sections |-> Sections]

NextDiscover ==
    \/ TrendingResolve
    \/ FetchCategory
    \/ SetCategoryPodcasts
    \/ \E identity \in Identities, args \in PageCreateArgs :
          createPodcast(identity, args) /\ UNCHANGED <<raceVars, pageVars, queryVars>>

\* Every query the page issues is answered.
SpecDiscover ==
    /\ InitDiscover
    /\ [][NextDiscover]_vars
    /\ WF_vars(TrendingResolve)
    /\ WF_vars(FetchCategory)
    /\ WF_vars(SetCategoryPodcasts)

---------------------------------------------------------------------------
(* Claims about the store (Spec) *)

\* The user row of the caller, and whether the caller owns a document.
IsOwner(identity, doc) ==
    /\ identity # NoIdentity
    /\ \E i \in 1..Len(Users) : Users[i].email = identity.email /\ Users[i]._id = doc.user

\* C3 (as stated): a deletePodcast that completes for an existing podcast
\* leaves no document under that id and leaves neither the image file nor the
\* audio file the document referred to in the file storage.
C3_DeleteRemovesOwnAssets ==
    [][last' = Outcome("deletePodcast", "ok") =>
       \A podcastId \in DOMAIN podcasts, args \in DeleteArgs :
          deletePodcast(podcastId, args)
              => /\ getPodcastById(podcasts', podcastId) = Null
                 /\ podcasts[podcastId].imageStorageId \notin storage'
                 /\ podcasts[podcastId].audioStorageId \notin storage']_vars

\* C4: updatePodcastViews on an existing document with views = n leaves it
\* with views = n + 1, every other field, every other document and the file
\* storage as they were; on an id with no document it fails with
\* "Podcast not found" and changes nothing.
C4_ViewsIncrement ==
    [][last'.op = "updatePodcastViews" =>
       \A podcastId \in PodcastIds :
          updatePodcastViews(podcastId)
              => IF podcastId \in DOMAIN podcasts
                 THEN /\ last'.result = "ok"
                      /\ DOMAIN podcasts' = DOMAIN podcasts
                      /\ podcasts'[podcastId].views = podcasts[podcastId].views + 1
                      /\ \A f \in DOMAIN podcasts[podcastId] \ {"views"} :
                            podcasts'[podcastId][f] = podcasts[podcastId][f]
                      /\ \A other \in DOMAIN podcasts \ {podcastId} :
                            podcasts'[other] = podcasts[other]
                      /\ storage' = storage
                 ELSE /\ last'.result = "Podcast not found"
                      /\ podcasts' = podcasts
                      /\ storage' = storage]_vars

\* C4 witness: an increment has just taken a document to one view.
C4_Witness ==
    /\ last = Outcome("updatePodcastViews", "ok")
    /\ \E id \in DOMAIN podcasts : podcasts[id].views = 1

\* C6 (as stated): after every step no document has a negative view count,
\* and a document's view count does not go down except by a reset to 0.
C6_ViewsNonNegativeMonotone ==
    [][\A id \in DOMAIN podcasts' :
          /\ podcasts'[id].views >= 0
          /\ id \in DOMAIN podcasts
                => \/ podcasts'[id].views >= podcasts[id].views
                   \/ podcasts'[id].views = 0]_vars

\* C7 (as stated): an updatePodcast or deletePodcast call by a caller who is
\* not the authenticated owner of the document leaves the document and the
\* two files it refers to as they were.
C7_OnlyOwnerMutates ==
    [][\A identity \in Identities, podcastId \in DOMAIN podcasts :
          (/\ ~IsOwner(identity, podcasts[podcastId])
           /\ \/ \E args \in UpdateArgs : updatePodcast(identity, podcastId, args)
              \/ \E args \in DeleteArgs : deletePodcast(podcastId, args))
              => /\ podcastId \in DOMAIN podcasts'
                 /\ podcasts'[podcastId] = podcasts[podcastId]
                 /\ \A file \in {podcasts[podcastId].imageStorageId,
                                 podcasts[podcastId].audioStorageId} :
                       file \in storage' <=> file \in storage]_vars

\* What updatePodcast leaves alone: the owner fields of the document, every
\* other document, the file storage; and the storage references it always
\* writes.
UpdateFrame(podcastId, args) ==
    /\ DOMAIN podcasts' = DOMAIN podcasts
    /\ podcasts'[podcastId].audioStorageId = args.audioStorageId
    /\ podcasts'[podcastId].imageStorageId = args.imageStorageId
    /\ \A f \in {"_id", "user", "author", "authorId", "authorImageUrl"} :
          podcasts'[podcastId][f] = podcasts[podcastId][f]
    /\ \A other \in DOMAIN podcasts \ {podcastId} : podcasts'[other] = podcasts[other]
    /\ storage' = storage

\* A field is overwritten exactly when the supplied value is truthy.
WrittenIfTruthy(podcastId, args, f, truthy) ==
    podcasts'[podcastId][f] = IF truthy THEN args[f] ELSE podcasts[podcastId][f]

\* C9 (as stated): updatePodcast by an authenticated caller on an existing
\* document overwrites a text or numeric field exactly when the supplied
\* value is truthy (views and audioDuration included), always overwrites the
\* two storage references, and changes nothing else.
C9_TruthyFieldsOnly ==
    [][last' = Outcome("updatePodcast", "ok") =>
       \A podcastId \in DOMAIN podcasts, args \in UpdateArgs :
          PatchPodcast(podcastId, args)
              => /\ UpdateFrame(podcastId, args)
                 /\ \A f \in StrFields :
                       WrittenIfTruthy(podcastId, args, f, TruthyStr(args[f]))
                 /\ \A f \in {"views", "audioDuration"} :
                       WrittenIfTruthy(podcastId, args, f, TruthyNum(args[f]))]_vars

\* C9 (amended): as above, except that views always takes the supplied
\* value, 0 included; audioDuration and the text fields are overwritten
\* exactly when the supplied value is truthy.
C9_TruthyFieldsAndViews ==
    [][last' = Outcome("updatePodcast", "ok") =>
       \A podcastId \in DOMAIN podcasts, args \in UpdateArgs :
          PatchPodcast(podcastId, args)
              => /\ UpdateFrame(podcastId, args)
                 /\ \A f \in StrFields :
                       WrittenIfTruthy(podcastId, args, f, TruthyStr(args[f]))
                 /\ WrittenIfTruthy(podcastId, args, "audioDuration",
                                    TruthyNum(args.audioDuration))
                 /\ podcasts'[podcastId].views = args.views]_vars

\* C9 witness: an update whose text fields, views and audioDuration are all
\* falsy has acted on the only document, which keeps its title and duration.
C9_Witness ==
    /\ last = Outcome("updatePodcast", "ok")
    /\ nextId = 2
    /\ 1 \in DOMAIN podcasts
    /\ podcasts[1].podcastTitle = "t1"
    /\ podcasts[1].audioDuration = 5
    /\ podcasts[1].views = 0

---------------------------------------------------------------------------
(* Claims about interleaved view increments (SpecRace) *)

\* The requests that have read the document, and the counts they read.
Started == {r \in Requests : pc[r] # "get"}
CountsRead == {podcastRead[r].views : r \in Started}

\* C10: once every request that started has finished: if all of them read the
\* initial count (each read before any wrote), the count is the initial count
\* + 1, however many they were; if they ran one after another (each read the
\* count the one before it wrote), the count is the initial count + their
\* number.
C10_LostUpdate ==
    (Started # {} /\ \A r \in Started : pc[r] = "done")
        => /\ CountsRead = {RacePodcast.views}
                => podcasts[RacePodcastId].views = RacePodcast.views + 1
           /\ CountsRead = {RacePodcast.views + k : k \in 0..(Cardinality(Started) - 1)}
                => podcasts[RacePodcastId].views = RacePodcast.views + Cardinality(Started)

\* C10 witness: two requests both read the initial count and both wrote.
C10_Witness ==
    /\ Cardinality(Started) = 2
    /\ \A r \in Started : pc[r] = "done" /\ podcastRead[r].views = RacePodcast.views
    /\ podcasts[RacePodcastId].views = RacePodcast.views + 1

---------------------------------------------------------------------------
(* Claims about the queries (SpecTrending, SpecSearch) *)

Ids(docs) == {docs[i]._id : i \in 1..Len(docs)}

\* C2: the trending list has min(8, number of documents) entries, is sorted by
\* views descending, holds distinct documents of the table, and no document
\* left out has more views than one that is in it.
C2_Trending ==
    result # Undefined =>
        LET top == The(result) IN
        /\ Len(top) = Min(TrendingLimit, Cardinality(DOMAIN podcasts))
        /\ \A i \in 1..Len(top) : \A j \in 1..Len(top) : i < j => top[i].views >= top[j].views
        /\ \A i \in 1..Len(top) : top[i]._id \in DOMAIN podcasts /\ podcasts[top[i]._id] = top[i]
        /\ Cardinality(Ids(top)) = Len(top)
        /\ \A out \in DOMAIN podcasts \ Ids(top) : \A i \in 1..Len(top) :
              podcasts[out].views <= top[i].views

\* C2 witness: of nine documents the eight returned leave out one with fewer
\* views than the last returned.
C2_Witness ==
    /\ result # Undefined
    /\ Cardinality(DOMAIN podcasts) = TrendingLimit + 1
    /\ Len(The(result)) = TrendingLimit
    /\ \E out \in DOMAIN podcasts \ Ids(The(result)) :
          podcasts[out].views < The(result)[TrendingLimit].views

\* The documents whose field holds the term.
Matches(field, term) == {id \in DOMAIN podcasts : term \in Tokens(podcasts[id][field])}

\* The hits of one index search: distinct documents out of `matches', all of
\* them up to the index's limit of 10.
HitsOf(docs, matches) ==
    /\ Ids(docs) \subseteq matches
    /\ Cardinality(Ids(docs)) = Len(docs)
    /\ Len(docs) = Min(SearchLimit, Cardinality(matches))
    /\ \A i \in 1..Len(docs) : podcasts[docs[i]._id] = docs[i]

\* C1: for the empty term the result is every document, newest first;
\* otherwise it is the hits on author if there are any, else the hits on
\* title if there are any, else the hits on description: one of the three,
\* never a union.
C1_SearchPriority ==
    result # Undefined =>
        LET docs == The(result)
            byAuthor == Matches("author", search)
            byTitle == Matches("podcastTitle", search)
            byBody == Matches("podcastDescription", search)
        IN  IF search = ""
            THEN /\ Len(docs) = Cardinality(DOMAIN podcasts)
                 /\ \A i \in 1..Len(docs) : docs[i] = podcasts[Len(docs) + 1 - i]
            ELSE IF byAuthor # {} THEN HitsOf(docs, byAuthor)
            ELSE IF byTitle # {} THEN HitsOf(docs, byTitle)
            ELSE HitsOf(docs, byBody)

\* C1 witness: the term matches the author of one document and the title of
\* another, and only the author hit is returned.
C1_Witness ==
    /\ result # Undefined
    /\ search = "bob"
    /\ Matches("author", search) # {}
    /\ Matches("podcastTitle", search) # {}
    /\ Ids(The(result)) = Matches("author", search)

---------------------------------------------------------------------------
(* Claims about the Discover page (SpecDiscover) *)

SectionLabels == {Render.sections[i] : i \in 1..Len(Render.sections)}

Unresolved == trendingPodcasts = Undefined \/ fetchIdx < Len(podcastCategories)

\* C8: while the trending query or one of the thirteen category queries is
\* unresolved the page renders the loading indicator and nothing else, and,
\* every query being answered, the page eventually shows its content.
C8_LoadingUntilResolved ==
    /\ [](Unresolved => Render = [view |-> "LoaderSpinner"])
    /\ <>(Render.view = "content")

\* C8 witness: all queries resolved and the content is shown.
C8_Witness ==
    /\ ~Unresolved
    /\ Render.view = "content"
    /\ Len(Render.trending) > 0

====
